---- MODULE Spec2Model ----
(***************************************************************************)
(* The agent turn loop of the weather bot (AgentClient.handleUserPrompt),  *)
(* its response classifier, its parameter parsing, the three lookup tools  *)
(* and the reconstruction of a session's history.                          *)
(*                                                                         *)
(* A text is a sequence of tokens.  A token is a string that stands for a  *)
(* run of characters of the text: a keyword marker, a run of word          *)
(* characters, a number literal, one punctuation character, one white      *)
(* space, or a run of free prose.                                          *)
(***************************************************************************)
EXTENDS Integers, Sequences, FiniteSets, TLC

\* ------------------------------------------------------------------ bounds

\* ACTION: replies the language model gives within one invocation.
MaxActions == 1

\* Activities the store delivers per page.
PageSize == 2

\* ---------------------------------------------------------- program constants

MAX_ITERATIONS == 10

Sessions == {"s1", "s2"}

ToolNames == {"getCoordinates", "getWeather", "getTime"}

\* ------------------------------------------------------------ optional values

None == <<>>

Some(x) == <<x>>

\* ---------------------------------------------------------------------- text

DQ == "\""

IsSpace(t) == t \in {" ", "\n"}

\* Tokens made of word characters only (\w+).
WordTokens == ToolNames \cup {"bogusTool", "abc", "def", "1", "2", "Paris"}

IsWord(t) == t \in WordTokens

\* Tokens that are a number literal, as parseFloat reads them.
NumberTokens == {"40.7", "-74.0", "48.85", "2.35", "1", "2"}

NaN == "NaN"

Min(S) == CHOOSE x \in S : \A y \in S : x <= y

RECURSIVE TrimStart(_)
TrimStart(text) ==
    IF text # <<>> /\ IsSpace(Head(text)) THEN TrimStart(Tail(text)) ELSE text

RECURSIVE TrimEnd(_)
TrimEnd(text) ==
    IF text # <<>> /\ IsSpace(text[Len(text)])
    THEN TrimEnd(SubSeq(text, 1, Len(text) - 1))
    ELSE text

\* String.prototype.trim
Trim(text) == TrimEnd(TrimStart(text))

\* String.prototype.startsWith, for a pattern that is one token
StartsWith(text, tok) == Len(text) >= 1 /\ text[1] = tok

\* String.prototype.replace(pattern, "") with a string pattern: only the first
\* occurrence is removed.
ReplaceFirst(text, tok) ==
    LET at == {i \in 1..Len(text) : text[i] = tok}
    IN  IF at = {} THEN text
        ELSE SubSeq(text, 1, Min(at) - 1) \o SubSeq(text, Min(at) + 1, Len(text))

\* String.prototype.replace(/tok/g, ""): every occurrence is removed.
RECURSIVE ReplaceAll(_, _)
ReplaceAll(text, tok) ==
    IF text = <<>> THEN <<>>
    ELSE IF Head(text) = tok THEN ReplaceAll(Tail(text), tok)
    ELSE <<Head(text)>> \o ReplaceAll(Tail(text), tok)

\* String.prototype.split(sep): the parts between the separators, empty parts kept.
RECURSIVE Split(_, _)
Split(text, sep) ==
    LET at == {i \in 1..Len(text) : text[i] = sep}
    IN  IF at = {} THEN <<text>>
        ELSE <<SubSeq(text, 1, Min(at) - 1)>>
             \o Split(SubSeq(text, Min(at) + 1, Len(text)), sep)

\* parseFloat: leading white space is skipped, then the longest numeric prefix
\* is read; NaN when there is none.
ParseFloat(text) ==
    LET t == TrimStart(text)
    IN  IF t # <<>> /\ t[1] \in NumberTokens THEN t[1] ELSE NaN

\* JSON.stringify of a string: quoted, inner quotes escaped.
RECURSIVE JsonEscape(_)
JsonEscape(text) ==
    IF text = <<>> THEN <<>>
    ELSE (IF Head(text) = DQ THEN <<"\\", DQ>> ELSE <<Head(text)>>)
         \o JsonEscape(Tail(text))

JsonStringifyString(text) == <<DQ>> \o JsonEscape(text) \o <<DQ>>

\* JSON.stringify of the record getCoordinatesImpl returns.
JsonStringifyCoordinates(rec) ==
    IF "error" \in DOMAIN rec
    THEN <<"{", DQ, "error", DQ, ":">> \o JsonStringifyString(rec.error) \o <<"}">>
    ELSE <<"{", DQ, "lat", DQ, ":", rec.lat, ",", DQ, "lon", DQ, ":", rec.lon, ",",
           DQ, "displayName", DQ, ":">>
         \o JsonStringifyString(rec.displayName) \o <<"}">>

\* ------------------------------------------------------------ call outcomes

Return(v) == [thrown |-> FALSE, value |-> v]

Throw(msg) == [thrown |-> TRUE, message |-> msg]

\* ---------------------------------------------------------------- the tools

CoordinatesLookups ==
    {"fetch_rejects", "status_not_ok", "json_rejects", "no_results", "found"}

WeatherLookups ==
    {"fetch_rejects", "status_not_ok", "json_rejects", "no_current", "current"}

TimeLookups ==
    {"fetch_rejects", "timeout_abort", "status_not_ok", "json_rejects", "no_data",
     "data"}

Lookups(toolName) ==
    CASE toolName = "getCoordinates" -> CoordinatesLookups
      [] toolName = "getWeather" -> WeatherLookups
      [] toolName = "getTime" -> TimeLookups

\* The message of the error a rejected fetch or body read carries.
RejectionMessage(lookup) ==
    CASE lookup = "fetch_rejects" -> <<"fetch failed">>
      [] lookup = "timeout_abort" -> <<"This operation was aborted">>
      [] lookup = "json_rejects" -> <<"Unexpected token < in JSON at position 0">>

\* The try block of getCoordinatesImpl.
GetCoordinatesTry(city_name, lookup) ==
    IF lookup = "fetch_rejects" THEN Throw(RejectionMessage(lookup))
    ELSE IF lookup = "status_not_ok"
    THEN Return([error |-> <<"OpenStreetMap API error: ", "503", " ",
                             "Service Unavailable">>])
    ELSE IF lookup = "json_rejects" THEN Throw(RejectionMessage(lookup))
    ELSE IF lookup = "found"
    THEN Return([lat |-> "48.85", lon |-> "2.35", displayName |-> city_name])
    ELSE Return([error |-> <<"Location not found">>])

GetCoordinatesImpl(city_name, lookup) ==
    LET r == GetCoordinatesTry(city_name, lookup)
    IN  IF r.thrown
        THEN Return([error |-> <<"Failed to get coordinates: ">> \o r.message])
        ELSE r

\* The table of getWeatherDescription.
WeatherDescription(code) ==
    CASE code = 0 -> "clear sky"
      [] code = 1 -> "mainly clear"
      [] code = 2 -> "partly cloudy"
      [] code = 3 -> "overcast"
      [] code = 45 -> "fog"
      [] code = 48 -> "depositing rime fog"
      [] code = 51 -> "light drizzle"
      [] code = 53 -> "moderate drizzle"
      [] code = 55 -> "dense drizzle"
      [] code = 56 -> "light freezing drizzle"
      [] code = 57 -> "dense freezing drizzle"
      [] code = 61 -> "slight rain"
      [] code = 63 -> "moderate rain"
      [] code = 65 -> "heavy rain"
      [] code = 66 -> "light freezing rain"
      [] code = 67 -> "heavy freezing rain"
      [] code = 71 -> "slight snow"
      [] code = 73 -> "moderate snow"
      [] code = 75 -> "heavy snow"
      [] code = 77 -> "snow grains"
      [] code = 80 -> "slight rain showers"
      [] code = 81 -> "moderate rain showers"
      [] code = 82 -> "violent rain showers"
      [] code = 85 -> "slight snow showers"
      [] code = 86 -> "heavy snow showers"
      [] code = 95 -> "thunderstorm"
      [] code = 96 -> "thunderstorm with slight hail"
      [] code = 99 -> "thunderstorm with heavy hail"
      [] OTHER -> "unknown weather"

\* The try block of getWeatherImpl.  The status of the response is not looked
\* at: the body of a response that is not ok is read like any other, and has no
\* `current` member.
GetWeatherTry(params, lookup) ==
    IF lookup = "fetch_rejects" THEN Throw(RejectionMessage(lookup))
    ELSE IF lookup = "json_rejects" THEN Throw(RejectionMessage(lookup))
    ELSE IF lookup = "current"
    THEN Return(<<"18", "C, ", WeatherDescription(2)>>)
    ELSE Return(<<"Weather data not available">>)

GetWeatherImpl_NoCatch(params, lookup) == GetWeatherTry(params, lookup)

GetWeatherImpl(params, lookup) ==
    LET r == GetWeatherTry(params, lookup)
    IN  IF r.thrown
        THEN Return(<<"Failed to get weather: ">> \o r.message)
        ELSE r

\* The try block of getTimeImpl.  The abort timer runs while the fetch is
\* pending: on expiry the fetch rejects.
GetTimeTry(params, lookup) ==
    IF lookup \in {"fetch_rejects", "timeout_abort"}
    THEN Throw(RejectionMessage(lookup))
    ELSE IF lookup = "status_not_ok"
    THEN Return(<<"Time API error: ", "503", " ", "Service Unavailable">>)
    ELSE IF lookup = "json_rejects" THEN Throw(RejectionMessage(lookup))
    ELSE IF lookup = "data"
    THEN Return(<<"Monday", ", ", "2025-06-02", " at ", "14:05", " ",
                  "Europe/Paris", " (DST active)">>)
    ELSE Return(<<"Time data not available">>)

GetTimeImpl_NoCatch(params, lookup) == GetTimeTry(params, lookup)

GetTimeImpl(params, lookup) ==
    LET r == GetTimeTry(params, lookup)
    IN  IF r.thrown
        THEN Return(<<"Failed to get time: ">> \o r.message)
        ELSE r

\* The exported tool wrappers.
GetCoordinatesTool(city_name, lookup) ==
    LET r == GetCoordinatesImpl(city_name, lookup)
    IN  IF r.thrown THEN r ELSE Return(JsonStringifyCoordinates(r.value))

GetWeatherTool(params, lookup) == GetWeatherImpl(params, lookup)

GetTimeTool(params, lookup) == GetTimeImpl(params, lookup)

\* ------------------------------------------------------ conversation messages

HumanMessage(text) == [role |-> "human", text |-> text]

AIMessage(text) == [role |-> "assistant", text |-> text]

\* ------------------------------------------------------------ activity content

\* Content of type prompt, thought, response, elicitation or error.
BodyContent(type, body) ==
    [type |-> type, body |-> body, action |-> "", parameter |-> None,
     result |-> None]

\* Content of type action; parameter and result are optional.
ActionContent(action, parameter, result) ==
    [type |-> "action", body |-> <<>>, action |-> action, parameter |-> parameter,
     result |-> result]

TerminalTypes == {"response", "elicitation", "error"}

\* ------------------------------------------------------ the response classifier

typeToKeyword ==
    << [type |-> "thought", keyword |-> "THINKING:"],
       [type |-> "action", keyword |-> "ACTION:"],
       [type |-> "response", keyword |-> "RESPONSE:"],
       [type |-> "elicitation", keyword |-> "ELICITATION:"],
       [type |-> "error", keyword |-> "ERROR:"] >>

KeywordOf(type) ==
    typeToKeyword[CHOOSE i \in 1..Len(typeToKeyword) : typeToKeyword[i].type = type].keyword

\* The first entry whose keyword the response starts with; thought when none.
MappedType(response) ==
    LET hits == {i \in 1..Len(typeToKeyword) :
                    StartsWith(response, typeToKeyword[i].keyword)}
    IN  IF hits = {} THEN "thought" ELSE typeToKeyword[Min(hits)].type

\* The first index from i on that holds no white space (Len + 1 when none).
RECURSIVE SkipSpaces(_, _)
SkipSpaces(text, i) ==
    IF i <= Len(text) /\ IsSpace(text[i]) THEN SkipSpaces(text, i + 1) ELSE i

\* /ACTION:\s*(\w+)\(([^)]+)\)/ tried at position i: the two groups, or None.
ActionMatchAt(text, i) ==
    LET j == SkipSpaces(text, i + 1)
        closes == {k \in (j + 2)..Len(text) : text[k] = ")"}
    IN  IF /\ text[i] = "ACTION:"
           /\ j + 1 <= Len(text)
           /\ IsWord(text[j])
           /\ text[j + 1] = "("
           /\ closes # {}
           /\ Min(closes) >= j + 3
        THEN Some([toolNameRaw |-> text[j],
                   params |-> SubSeq(text, j + 2, Min(closes) - 1)])
        ELSE None

\* String.prototype.match: the leftmost match.
ActionMatch(text) ==
    LET at == {i \in 1..Len(text) : ActionMatchAt(text, i) # None}
    IN  IF at = {} THEN None ELSE ActionMatchAt(text, Min(at))

IsToolName(name) == name \in ToolNames

UnreachableCaseError(value) == <<"Unreachable case: ", value>>

MapResponseToLinearActivityContent_AnyTool(response) ==
    LET type == MappedType(response)
        actionMatch == ActionMatch(response)
    IN  IF type \in {"thought", "response", "elicitation", "error"}
        THEN Return(BodyContent(type, Trim(ReplaceFirst(response, KeywordOf(type)))))
        ELSE IF actionMatch # None
        THEN Return(ActionContent(actionMatch[1].toolNameRaw,
                                  IF actionMatch[1].params # <<>>
                                  THEN Some(actionMatch[1].params) ELSE None, None))
        ELSE Throw(UnreachableCaseError(type))

MapResponseToLinearActivityContent(response) ==
    LET type == MappedType(response)
        actionMatch == ActionMatch(response)
    IN  IF type \in {"thought", "response", "elicitation", "error"}
        THEN Return(BodyContent(type, Trim(ReplaceFirst(response, KeywordOf(type)))))
        ELSE IF actionMatch # None
        THEN IF ~IsToolName(actionMatch[1].toolNameRaw)
             THEN Throw(<<"Invalid tool name: ", actionMatch[1].toolNameRaw>>)
             ELSE Return(ActionContent(
                      actionMatch[1].toolNameRaw,
                      IF actionMatch[1].params # <<>>
                      THEN Some(actionMatch[1].params) ELSE None,
                      None))
        ELSE Throw(UnreachableCaseError(type))

\* ---------------------------------------------------------------- executeAction

\* parameter.split(",").map((p) => parseFloat(p.trim()))
ParamParts(parameter) ==
    LET parts == Split(parameter, ",")
    IN  [i \in 1..Len(parts) |-> ParseFloat(Trim(parts[i]))]

LatLongCall_Unchecked(action, parameter) ==
    LET paramParts == ParamParts(parameter)
    IN  Return([tool |-> action,
                args |-> <<paramParts[1],
                           IF Len(paramParts) >= 2 THEN paramParts[2] ELSE NaN>>])

\* Only a parameter of exactly two parts is accepted.
LatLongCall_ExactlyTwo(action, parameter) ==
    LET paramParts == ParamParts(parameter)
    IN  IF /\ Len(paramParts) = 2
           /\ paramParts[1] # NaN
           /\ paramParts[2] # NaN
        THEN Return([tool |-> action, args |-> <<paramParts[1], paramParts[2]>>])
        ELSE Throw(<<"Invalid parameter for ", action, " action">>)

\* The getWeather and getTime cases up to the call of the tool.
LatLongCall(action, parameter) ==
    LET paramParts == ParamParts(parameter)
    IN  IF /\ Len(paramParts) >= 2
           /\ paramParts[1] # NaN
           /\ paramParts[2] # NaN
        THEN Return([tool |-> action, args |-> <<paramParts[1], paramParts[2]>>])
        ELSE Throw(<<"Invalid parameter for ", action, " action">>)

\* executeAction up to the call of the tool: the call it makes, or what it throws.
PrepareAction(action, parameter) ==
    IF parameter = None \/ parameter = Some(<<>>)
    THEN Throw(<<"Parameter is required for action execution">>)
    ELSE CASE action = "getCoordinates" ->
                Return([tool |-> action, args |-> <<ReplaceAll(parameter[1], DQ)>>])
           [] action \in {"getWeather", "getTime"} ->
                LatLongCall(action, parameter[1])
           [] OTHER -> Throw(UnreachableCaseError(action))

\* The tool a call reaches, with the outcome of its lookup.
InvokeTool(call, lookup) ==
    CASE call.tool = "getCoordinates" -> GetCoordinatesTool(call.args[1], lookup)
      [] call.tool = "getWeather" ->
            GetWeatherTool([lat |-> call.args[1], long |-> call.args[2]], lookup)
      [] call.tool = "getTime" ->
            GetTimeTool([lat |-> call.args[1], long |-> call.args[2]], lookup)

\* executeAction from the tool's return on: what it returns or throws.
FinishAction(call, toolReturn) ==
    IF toolReturn.thrown THEN toolReturn
    ELSE IF call.tool = "getTime" THEN toolReturn
    ELSE Return(JsonStringifyString(toolReturn.value))

\* ------------------------------------------------------ the activity store

\* The number of activities the store puts on one page.
VARIABLE pageSize

\* One page of a session's activities, after a cursor (a position; 0 at first).
ListActivities(delivered, after) ==
    LET last == IF after + pageSize < Len(delivered)
                THEN after + pageSize ELSE Len(delivered)
        nodes == SubSeq(delivered, after + 1, last)
    IN  [nodes |-> nodes,
         pageInfo |-> [hasNextPage |-> last < Len(delivered),
                       endCursor |-> IF nodes = <<>> THEN None ELSE Some(last)]]

RECURSIVE Reverse(_)
Reverse(seq) ==
    IF seq = <<>> THEN <<>> ELSE Reverse(Tail(seq)) \o <<Head(seq)>>

RECURSIVE FilterPromptResponse(_)
FilterPromptResponse(seq) ==
    IF seq = <<>> THEN <<>>
    ELSE (IF Head(seq).type \in {"prompt", "response"} THEN <<Head(seq)>> ELSE <<>>)
         \o FilterPromptResponse(Tail(seq))

MessagesFromActivities_NotReversed(allActivities) ==
    LET kept == FilterPromptResponse(allActivities)
    IN  [i \in 1..Len(kept) |->
            IF kept[i].type = "prompt" THEN HumanMessage(kept[i].body)
            ELSE AIMessage(kept[i].body)]

\* The messages built from the activities fetched.
MessagesFromActivities(allActivities) ==
    LET kept == Reverse(FilterPromptResponse(allActivities))
    IN  [i \in 1..Len(kept) |->
            IF kept[i].type = "prompt"
            THEN HumanMessage(kept[i].body)
            ELSE AIMessage(kept[i].body)]

\* ------------------------------------------------------------------ inputs

UserPrompt == <<"What's the weather in Paris?">>

\* Replies of the language model.
Replies ==
    { <<"THINKING:", " ", "I should find coordinates first">>,
      <<"ACTION:", " ", "getCoordinates", "(", DQ, "Paris", DQ, ")">>,
      <<"ACTION:", " ", "getWeather", "(", "40.7", ",", "-74.0", ")">>,
      <<"ACTION:", " ", "getWeather", "(", "abc", ",", "def", ")">>,
      <<"ACTION:", " ", "getTime", "(", "48.85", ",", " ", "2.35", ")">>,
      <<"ACTION:", " ", "getTime", "(", "48.85", ")">>,
      <<"ACTION:", " ", "getTime", "(", ")">>,
      <<"ACTION:", " ", "bogusTool", "(", "1", ",", "2", ")">>,
      <<"RESPONSE:", " ", "It's 18 C and partly cloudy in Paris.">>,
      <<"ELICITATION:", " ", "Which Paris do you mean?">>,
      <<"ERROR:", " ", "I cannot help with that.">> }

\* What the store delivers for a session that has activities already, in the
\* order it delivers them.
EarlierActivities ==
    << BodyContent("response", <<"It is sunny in Tokyo.">>),
       ActionContent("getWeather", Some(<<"35.68", ",", "139.69">>),
                     Some(<<DQ, "21", "C, ", "clear sky", DQ>>)),
       BodyContent("thought", <<"I need the weather for Tokyo">>),
       BodyContent("prompt", <<"What's the weather in Tokyo?">>) >>

Histories == {<<>>, EarlierActivities}

\* What a rejected call to the Linear API or to the Anthropic API carries.
LinearErrorMessage == <<"Linear API error">>

AnthropicErrorMessage == <<"Overloaded">>

maxIterationsMessage ==
    <<"The agent has reached the maximum number of iterations and will now stop.">>

\* ------------------------------------------------------------------- state

VARIABLES
    pc,             \* where each invocation of handleUserPrompt stands
    history,        \* the activities each session holds before the invocation
    activities,     \* the activities written to each session, in order
    connection,     \* activitiesConnection
    allActivities,
    hasNextPage,
    messages,
    taskComplete,
    iterations,
    response,
    content,
    call,           \* the tool call executeAction has made
    lookup,         \* how the lookup of the last tool call ended
    toolResult,
    error,          \* the error caught at the iteration boundary
    rejection,      \* the error handleUserPrompt rejected with
    modelCalls,     \* calls of callLangGraphAgent
    toolCalls,      \* calls of a tool
    actionReplies,  \* replies tagged ACTION: received
    written         \* activities written before the current iteration

vars ==
    <<pageSize, pc, history, activities, connection, allActivities, hasNextPage, messages,
      taskComplete, iterations, response, content, call, lookup, toolResult,
      error, rejection, modelCalls, toolCalls, actionReplies, written>>

NoContent == BodyContent("", <<>>)

NoCall == [tool |-> "", args |-> <<>>]

NoConnection ==
    [nodes |-> <<>>, pageInfo |-> [hasNextPage |-> FALSE, endCursor |-> None]]

\* Nothing has run yet: the locals of handleUserPrompt hold no value.
Fresh ==
    /\ activities = [s \in Sessions |-> <<>>]
    /\ connection = [s \in Sessions |-> NoConnection]
    /\ allActivities = [s \in Sessions |-> <<>>]
    /\ hasNextPage = [s \in Sessions |-> FALSE]
    /\ messages = [s \in Sessions |-> <<>>]
    /\ taskComplete = [s \in Sessions |-> FALSE]
    /\ iterations = [s \in Sessions |-> 0]
    /\ response = [s \in Sessions |-> <<>>]
    /\ content = [s \in Sessions |-> NoContent]
    /\ call = [s \in Sessions |-> NoCall]
    /\ lookup = [s \in Sessions |-> ""]
    /\ toolResult = [s \in Sessions |-> None]
    /\ error = [s \in Sessions |-> None]
    /\ rejection = [s \in Sessions |-> None]
    /\ modelCalls = [s \in Sessions |-> 0]
    /\ toolCalls = [s \in Sessions |-> 0]
    /\ actionReplies = [s \in Sessions |-> 0]
    /\ written = [s \in Sessions |-> 0]

Init ==
    /\ pageSize = PageSize
    /\ pc = [s \in Sessions |-> IF s = "s1" THEN "start" ELSE "idle"]
    /\ history \in [Sessions -> Histories]
    /\ \A s \in Sessions : pc[s] = "idle" => history[s] = <<>>
    /\ Fresh

\* Every invocation writes to one and the same session.
CreateAgentActivity_SharedSession(agentSessionId, c) ==
    activities' = [activities EXCEPT !["s1"] = Append(@, c)]

\* linearClient.createAgentActivity({agentSessionId, content}), acknowledged.
CreateAgentActivity(agentSessionId, c) ==
    activities' = [activities EXCEPT ![agentSessionId] = Append(@, c)]

\* ------------------------------------------- generateMessagesFromPreviousActivities

MorePages_FirstPageOnly(s) ==
    hasNextPage[s] /\ connection[s].pageInfo.endCursor # None /\ allActivities[s] = <<>>

MorePages(s) ==
    hasNextPage[s] /\ connection[s].pageInfo.endCursor # None

FetchFirstPage(s) ==
    /\ pc[s] = "start"
    /\ LET c == ListActivities(history[s], 0)
       IN  /\ connection' = [connection EXCEPT ![s] = c]
           /\ hasNextPage' = [hasNextPage EXCEPT ![s] = c.pageInfo.hasNextPage]
           /\ allActivities' = [allActivities EXCEPT ![s] = c.nodes]
    /\ pc' = [pc EXCEPT ![s] = "paging"]
    /\ UNCHANGED <<pageSize, history, activities, messages, taskComplete, iterations, response,
                   content, call, lookup, toolResult, error, rejection, modelCalls,
                   toolCalls, actionReplies, written>>

FetchNextPage(s) ==
    /\ pc[s] = "paging"
    /\ MorePages(s)
    /\ LET c == ListActivities(history[s], connection[s].pageInfo.endCursor[1])
       IN  /\ connection' = [connection EXCEPT ![s] = c]
           /\ allActivities' = [allActivities EXCEPT ![s] = @ \o c.nodes]
           /\ hasNextPage' = [hasNextPage EXCEPT ![s] = c.pageInfo.hasNextPage]
    /\ UNCHANGED <<pageSize, pc, history, activities, messages, taskComplete, iterations,
                   response, content, call, lookup, toolResult, error, rejection,
                   modelCalls, toolCalls, actionReplies, written>>

\* agentSession(id) or activities(...) rejects: nothing catches it.
ListRejects(s) ==
    /\ \/ pc[s] = "start"
       \/ pc[s] = "paging" /\ MorePages(s)
    /\ pc' = [pc EXCEPT ![s] = "thrown"]
    /\ rejection' = [rejection EXCEPT ![s] = Some(LinearErrorMessage)]
    /\ UNCHANGED <<pageSize, history, activities, connection, allActivities, hasNextPage,
                   messages, taskComplete, iterations, response, content, call,
                   lookup, toolResult, error, modelCalls, toolCalls, actionReplies,
                   written>>

\* The history is put before the new human message.
SeedMessages_HistoryFirst(s) ==
    /\ pc[s] = "paging"
    /\ ~MorePages(s)
    /\ messages' = [messages EXCEPT ![s] =
                       MessagesFromActivities(allActivities[s])
                       \o <<HumanMessage(UserPrompt)>>]
    /\ taskComplete' = [taskComplete EXCEPT ![s] = FALSE]
    /\ iterations' = [iterations EXCEPT ![s] = 0]
    /\ pc' = [pc EXCEPT ![s] = "loop"]
    /\ UNCHANGED <<pageSize, history, activities, connection, allActivities, hasNextPage,
                   response, content, call, lookup, toolResult, error, rejection,
                   modelCalls, toolCalls, actionReplies, written>>

\* The last page is in: the messages are built and the loop is set up.
SeedMessages(s) ==
    /\ pc[s] = "paging"
    /\ ~MorePages(s)
    /\ messages' = [messages EXCEPT ![s] =
                       <<HumanMessage(UserPrompt)>>
                       \o MessagesFromActivities(allActivities[s])]
    /\ taskComplete' = [taskComplete EXCEPT ![s] = FALSE]
    /\ iterations' = [iterations EXCEPT ![s] = 0]
    /\ pc' = [pc EXCEPT ![s] = "loop"]
    /\ UNCHANGED <<pageSize, history, activities, connection, allActivities, hasNextPage,
                   response, content, call, lookup, toolResult, error, rejection,
                   modelCalls, toolCalls, actionReplies, written>>

\* --------------------------------------------------------------- the turn loop

LoopCondition_OffByOne(s) ==
    ~taskComplete[s] /\ iterations[s] <= MAX_ITERATIONS

\* while (!taskComplete && iterations < this.MAX_ITERATIONS)
LoopCondition(s) ==
    ~taskComplete[s] /\ iterations[s] < MAX_ITERATIONS

BudgetCondition_IgnoresTaskComplete(s) ==
    iterations[s] >= MAX_ITERATIONS

\* if (!taskComplete && iterations >= this.MAX_ITERATIONS)
BudgetCondition(s) ==
    ~taskComplete[s] /\ iterations[s] >= MAX_ITERATIONS

\* The branch of the if chain a content takes.
Dispatch(c) ==
    CASE c.type = "thought" -> "thought"
      [] c.type = "action" -> "announce"
      [] c.type \in TerminalTypes -> "terminal"
      [] OTHER -> "loop"

\* An iteration starts: its bindings (response, content, parameter, toolResult)
\* are fresh, and the model is called with the messages.
NextIteration(s) ==
    /\ pc[s] = "loop"
    /\ LoopCondition(s)
    /\ iterations' = [iterations EXCEPT ![s] = @ + 1]
    /\ modelCalls' = [modelCalls EXCEPT ![s] = @ + 1]
    /\ written' = [written EXCEPT ![s] = Len(activities[s])]
    /\ response' = [response EXCEPT ![s] = <<>>]
    /\ content' = [content EXCEPT ![s] = NoContent]
    /\ call' = [call EXCEPT ![s] = NoCall]
    /\ lookup' = [lookup EXCEPT ![s] = ""]
    /\ toolResult' = [toolResult EXCEPT ![s] = None]
    /\ pc' = [pc EXCEPT ![s] = "call"]
    /\ UNCHANGED <<pageSize, history, activities, connection, allActivities, hasNextPage,
                   messages, taskComplete, error, rejection, toolCalls,
                   actionReplies>>

\* The model answers with one of the given replies and the answer is
\* classified.
ModelRepliesFrom(s, replies) ==
    /\ pc[s] = "call"
    /\ \E r \in replies :
          /\ StartsWith(r, "ACTION:") => actionReplies[s] < MaxActions
          /\ response' = [response EXCEPT ![s] = r]
          /\ actionReplies' = [actionReplies EXCEPT ![s] =
                                  IF StartsWith(r, "ACTION:") THEN @ + 1 ELSE @]
          /\ LET c == MapResponseToLinearActivityContent(r)
             IN  IF c.thrown
                 THEN /\ error' = [error EXCEPT ![s] = Some(c.message)]
                      /\ pc' = [pc EXCEPT ![s] = "catch"]
                      /\ UNCHANGED content
                 ELSE /\ content' = [content EXCEPT ![s] = c.value]
                      /\ pc' = [pc EXCEPT ![s] = Dispatch(c.value)]
                      /\ UNCHANGED error
    /\ UNCHANGED <<pageSize, history, activities, connection, allActivities, hasNextPage,
                   messages, taskComplete, iterations, call, lookup, toolResult,
                   rejection, modelCalls, toolCalls, written>>

ModelReplies(s) == ModelRepliesFrom(s, Replies)

\* model.invoke rejects; callLangGraphAgent rethrows.
ModelRejects(s) ==
    /\ pc[s] = "call"
    /\ error' = [error EXCEPT ![s] =
                    Some(<<"Anthropic API error: ">> \o AnthropicErrorMessage)]
    /\ pc' = [pc EXCEPT ![s] = "catch"]
    /\ UNCHANGED <<pageSize, history, activities, connection, allActivities, hasNextPage,
                   messages, taskComplete, iterations, response, content, call,
                   lookup, toolResult, rejection, modelCalls, toolCalls,
                   actionReplies, written>>

\* The reply joins the conversation but no Thought activity is written.
ThoughtWritten_NotWritten(s) ==
    /\ pc[s] = "thought"
    /\ messages' = [messages EXCEPT ![s] = Append(@, AIMessage(response[s]))]
    /\ pc' = [pc EXCEPT ![s] = "loop"]
    /\ UNCHANGED <<pageSize, history, activities, connection, allActivities, hasNextPage,
                   taskComplete, iterations, response, content, call, lookup,
                   toolResult, error, rejection, modelCalls, toolCalls,
                   actionReplies, written>>

\* The pause after the Thought never resolves: the invocation stays suspended.
ThoughtWritten_PauseNeverResolves(s) ==
    /\ pc[s] = "thought"
    /\ CreateAgentActivity(s, content[s])
    /\ messages' = [messages EXCEPT ![s] = Append(@, AIMessage(response[s]))]
    /\ pc' = [pc EXCEPT ![s] = "pause"]
    /\ UNCHANGED <<pageSize, history, connection, allActivities, hasNextPage, taskComplete,
                   iterations, response, content, call, lookup, toolResult, error,
                   rejection, modelCalls, toolCalls, actionReplies, written>>

\* The Thought activity is written; the reply joins the conversation.
ThoughtWritten(s) ==
    /\ pc[s] = "thought"
    /\ CreateAgentActivity(s, content[s])
    /\ messages' = [messages EXCEPT ![s] = Append(@, AIMessage(response[s]))]
    /\ pc' = [pc EXCEPT ![s] = "loop"]
    /\ UNCHANGED <<pageSize, history, connection, allActivities, hasNextPage, taskComplete,
                   iterations, response, content, call, lookup, toolResult, error,
                   rejection, modelCalls, toolCalls, actionReplies, written>>

\* The tool is called although the announcement has not been written.
ActionAnnounced_NotAwaited(s) ==
    /\ pc[s] = "announce"
    /\ LET p == PrepareAction(content[s].action, content[s].parameter)
       IN  /\ ~p.thrown
           /\ call' = [call EXCEPT ![s] = p.value]
           /\ toolCalls' = [toolCalls EXCEPT ![s] = @ + 1]
           /\ pc' = [pc EXCEPT ![s] = "tool"]
    /\ UNCHANGED <<pageSize, history, activities, connection, allActivities, hasNextPage,
                   messages, taskComplete, iterations, response, content, lookup,
                   toolResult, error, rejection, modelCalls, actionReplies, written>>

\* PART 1 is written; executeAction runs up to the call of the tool.
ActionAnnounced(s) ==
    /\ pc[s] = "announce"
    /\ CreateAgentActivity(s, content[s])
    /\ LET p == PrepareAction(content[s].action, content[s].parameter)
       IN  IF p.thrown
           THEN /\ error' = [error EXCEPT ![s] = Some(p.message)]
                /\ pc' = [pc EXCEPT ![s] = "catch"]
                /\ UNCHANGED <<call, toolCalls>>
           ELSE /\ call' = [call EXCEPT ![s] = p.value]
                /\ toolCalls' = [toolCalls EXCEPT ![s] = @ + 1]
                /\ pc' = [pc EXCEPT ![s] = "tool"]
                /\ UNCHANGED error
    /\ UNCHANGED <<pageSize, history, connection, allActivities, hasNextPage, messages,
                   taskComplete, iterations, response, content, lookup, toolResult,
                   rejection, modelCalls, actionReplies, written>>

\* The tool returns; executeAction returns; the result joins the conversation.
ToolResolves(s) ==
    /\ pc[s] = "tool"
    /\ \E l \in Lookups(call[s].tool) :
          /\ lookup' = [lookup EXCEPT ![s] = l]
          /\ LET r == FinishAction(call[s], InvokeTool(call[s], l))
             IN  IF r.thrown
                 THEN /\ error' = [error EXCEPT ![s] = Some(r.message)]
                      /\ pc' = [pc EXCEPT ![s] = "catch"]
                      /\ UNCHANGED <<toolResult, messages>>
                 ELSE /\ toolResult' = [toolResult EXCEPT ![s] = Some(r.value)]
                      /\ messages' = [messages EXCEPT ![s] =
                            @ \o <<AIMessage(response[s]),
                                   HumanMessage(<<"Tool result: ">> \o r.value)>>]
                      /\ pc' = [pc EXCEPT ![s] = "result"]
                      /\ UNCHANGED error
    /\ UNCHANGED <<pageSize, history, activities, connection, allActivities, hasNextPage,
                   taskComplete, iterations, response, content, call, rejection,
                   modelCalls, toolCalls, actionReplies, written>>

\* The activity records the message text instead of the tool's result.
ResultContent_MessageText(s) ==
    ActionContent(content[s].action,
                  IF content[s].parameter # None /\ content[s].parameter # Some(<<>>)
                  THEN content[s].parameter ELSE None,
                  Some(<<"Tool result: ">> \o toolResult[s][1]))

\* resultContent
ResultContent(s) ==
    ActionContent(content[s].action,
                  IF content[s].parameter # None /\ content[s].parameter # Some(<<>>)
                  THEN content[s].parameter ELSE None,
                  toolResult[s])

ResultWritten_Skipped(s) ==
    /\ pc[s] = "result"
    /\ pc' = [pc EXCEPT ![s] = "loop"]
    /\ UNCHANGED <<pageSize, history, activities, connection, allActivities, hasNextPage,
                   messages, taskComplete, iterations, response, content, call,
                   lookup, toolResult, error, rejection, modelCalls, toolCalls,
                   actionReplies, written>>

\* PART 3 is written.
ResultWritten(s) ==
    /\ pc[s] = "result"
    /\ CreateAgentActivity(s, ResultContent(s))
    /\ pc' = [pc EXCEPT ![s] = "loop"]
    /\ UNCHANGED <<pageSize, history, connection, allActivities, hasNextPage, messages,
                   taskComplete, iterations, response, content, call, lookup,
                   toolResult, error, rejection, modelCalls, toolCalls,
                   actionReplies, written>>

TerminalWritten_KeepsGoing(s) ==
    /\ pc[s] = "terminal"
    /\ CreateAgentActivity(s, content[s])
    /\ pc' = [pc EXCEPT ![s] = "loop"]
    /\ UNCHANGED <<pageSize, history, connection, allActivities, hasNextPage, messages,
                   taskComplete, iterations, response, content, call, lookup,
                   toolResult, error, rejection, modelCalls, toolCalls,
                   actionReplies, written>>

\* The Response, Elicitation or Error activity is written; the task is complete.
TerminalWritten(s) ==
    /\ pc[s] = "terminal"
    /\ CreateAgentActivity(s, content[s])
    /\ taskComplete' = [taskComplete EXCEPT ![s] = TRUE]
    /\ pc' = [pc EXCEPT ![s] = "loop"]
    /\ UNCHANGED <<pageSize, history, connection, allActivities, hasNextPage, messages,
                   iterations, response, content, call, lookup, toolResult, error,
                   rejection, modelCalls, toolCalls, actionReplies, written>>

\* A createAgentActivity of the try block rejects.
WriteRejects(s) ==
    /\ pc[s] \in {"thought", "announce", "result", "terminal"}
    /\ error' = [error EXCEPT ![s] = Some(LinearErrorMessage)]
    /\ pc' = [pc EXCEPT ![s] = "catch"]
    /\ UNCHANGED <<pageSize, history, activities, connection, allActivities, hasNextPage,
                   messages, taskComplete, iterations, response, content, call,
                   lookup, toolResult, rejection, modelCalls, toolCalls,
                   actionReplies, written>>

\* The content of the catch block's activity.
AgentErrorContent(message) ==
    BodyContent("error", <<"Agent error: ">> \o message)

ErrorWritten_Retries(s) ==
    /\ pc[s] = "catch"
    /\ CreateAgentActivity(s, AgentErrorContent(error[s][1]))
    /\ pc' = [pc EXCEPT ![s] = "loop"]
    /\ UNCHANGED <<pageSize, history, connection, allActivities, hasNextPage, messages,
                   taskComplete, iterations, response, content, call, lookup,
                   toolResult, error, rejection, modelCalls, toolCalls,
                   actionReplies, written>>

\* The catch block: the Error activity is written; the task is complete.
ErrorWritten(s) ==
    /\ pc[s] = "catch"
    /\ CreateAgentActivity(s, AgentErrorContent(error[s][1]))
    /\ taskComplete' = [taskComplete EXCEPT ![s] = TRUE]
    /\ pc' = [pc EXCEPT ![s] = "loop"]
    /\ UNCHANGED <<pageSize, history, connection, allActivities, hasNextPage, messages,
                   iterations, response, content, call, lookup, toolResult, error,
                   rejection, modelCalls, toolCalls, actionReplies, written>>

\* The loop is left without the task being complete.
BudgetExhausted(s) ==
    /\ pc[s] = "loop"
    /\ ~LoopCondition(s)
    /\ BudgetCondition(s)
    /\ pc' = [pc EXCEPT ![s] = "budget"]
    /\ UNCHANGED <<pageSize, history, activities, connection, allActivities, hasNextPage,
                   messages, taskComplete, iterations, response, content, call,
                   lookup, toolResult, error, rejection, modelCalls, toolCalls,
                   actionReplies, written>>

\* The Error activity of the exhausted budget is written.
BudgetWritten(s) ==
    /\ pc[s] = "budget"
    /\ CreateAgentActivity(s, BodyContent("error", maxIterationsMessage))
    /\ pc' = [pc EXCEPT ![s] = "done"]
    /\ UNCHANGED <<pageSize, history, connection, allActivities, hasNextPage, messages,
                   taskComplete, iterations, response, content, call, lookup,
                   toolResult, error, rejection, modelCalls, toolCalls,
                   actionReplies, written>>

\* A createAgentActivity outside the try block rejects: nothing catches it.
WriteRejectsUncaught(s) ==
    /\ pc[s] \in {"catch", "budget"}
    /\ rejection' = [rejection EXCEPT ![s] = Some(LinearErrorMessage)]
    /\ pc' = [pc EXCEPT ![s] = "thrown"]
    /\ UNCHANGED <<pageSize, history, activities, connection, allActivities, hasNextPage,
                   messages, taskComplete, iterations, response, content, call,
                   lookup, toolResult, error, modelCalls, toolCalls, actionReplies,
                   written>>

\* handleUserPrompt returns.
Finish(s) ==
    /\ pc[s] = "loop"
    /\ ~LoopCondition(s)
    /\ ~BudgetCondition(s)
    /\ pc' = [pc EXCEPT ![s] = "done"]
    /\ UNCHANGED <<pageSize, history, activities, connection, allActivities, hasNextPage,
                   messages, taskComplete, iterations, response, content, call,
                   lookup, toolResult, error, rejection, modelCalls, toolCalls,
                   actionReplies, written>>

Next ==
    \E s \in Sessions :
        \/ FetchFirstPage(s)
        \/ FetchNextPage(s)
        \/ ListRejects(s)
        \/ SeedMessages(s)
        \/ NextIteration(s)
        \/ ModelReplies(s)
        \/ ModelRejects(s)
        \/ ThoughtWritten(s)
        \/ ActionAnnounced(s)
        \/ ToolResolves(s)
        \/ ResultWritten(s)
        \/ TerminalWritten(s)
        \/ WriteRejects(s)
        \/ ErrorWritten(s)
        \/ BudgetExhausted(s)
        \/ BudgetWritten(s)
        \/ WriteRejectsUncaught(s)
        \/ Finish(s)

Spec == Init /\ [][Next]_vars

\* ------------------------------------------------------------------ properties

\* The activities written since the current iteration started.
IterationWrites(s) ==
    SubSeq(activities[s], written[s] + 1, Len(activities[s]))

IsAnnouncement(a) == a.type = "action" /\ a.result = None

IsResult(a) == a.type = "action" /\ a.result # None

\* The pre-execution activity that goes with a post-execution activity.
AnnouncementOf(a) == ActionContent(a.action, a.parameter, None)

Count(seq, P(_)) == Cardinality({i \in 1..Len(seq) : P(seq[i])})

\* A createAgentActivity of the current iteration's try block was rejected.
WriteWasRejected(s) == error[s] = Some(LinearErrorMessage)

\* C1: in one invocation of handleUserPrompt the model is called at most
\* MAX_ITERATIONS times, whatever the replies, tool outcomes and failures.
C1_ModelCallsBounded ==
    \A s \in Sessions : modelCalls[s] <= MAX_ITERATIONS

C1_Witness ==
    \E s \in Sessions : pc[s] = "done" /\ modelCalls[s] = MAX_ITERATIONS

\* C2: while the tool of an Action iteration runs, the trail of the iteration is
\* the announcement alone (tool and raw parameter, no result); the result
\* activity is written only once the tool has returned, carries the same tool
\* and parameter, and directly follows its announcement in the session's trail.
C2_AnnouncedBeforeCompleted ==
    \A s \in Sessions :
        /\ pc[s] \in {"tool", "result"} =>
              /\ content[s].type = "action"
              /\ call[s].tool = content[s].action
              /\ IterationWrites(s) = <<ActionContent(content[s].action,
                                                     content[s].parameter, None)>>
        /\ pc[s] = "tool" => toolResult[s] = None
        /\ pc[s] = "result" => toolResult[s] # None
        /\ toolCalls[s] <= Count(activities[s], IsAnnouncement)
        /\ Count(activities[s], IsResult)
              <= toolCalls[s] - (IF pc[s] = "tool" THEN 1 ELSE 0)
        /\ \A i \in 1..Len(activities[s]) :
              IsResult(activities[s][i]) =>
                 /\ i > 1
                 /\ activities[s][i - 1] = AnnouncementOf(activities[s][i])

C2_Witness ==
    \E s \in Sessions :
        /\ pc[s] = "loop"
        /\ Len(IterationWrites(s)) = 2
        /\ IsAnnouncement(IterationWrites(s)[1])
        /\ IsResult(IterationWrites(s)[2])
        /\ IterationWrites(s)[2].result = toolResult[s]

\* C3 as stated: an iteration whose reply was classified as Action ends (the
\* store having acknowledged every write) with exactly two writes, the
\* announcement and the result.
C3_Original ==
    \A s \in Sessions :
        (pc[s] = "loop" /\ content[s].type = "action" /\ ~WriteWasRejected(s)) =>
            IterationWrites(s) = <<content[s], ResultContent(s)>>

\* C3 amended: an iteration whose reply was classified as Action ends (the store
\* having acknowledged every write) with exactly two writes: the announcement
\* and the result when executeAction returned; the announcement and the catch
\* block's Error activity, and no result, when executeAction threw.
C3_TwoWritesPerAction ==
    \A s \in Sessions :
        (pc[s] = "loop" /\ content[s].type = "action" /\ ~WriteWasRejected(s)) =>
            IF toolResult[s] # None
            THEN /\ IterationWrites(s) = <<content[s], ResultContent(s)>>
                 /\ error[s] = None
                 /\ ~taskComplete[s]
            ELSE /\ error[s] # None
                 /\ IterationWrites(s) = <<content[s], AgentErrorContent(error[s][1])>>
                 /\ taskComplete[s]

C3_Witness ==
    \E s \in Sessions :
        /\ pc[s] = "loop"
        /\ content[s].type = "action"
        /\ toolResult[s] # None
        /\ IterationWrites(s) = <<content[s], ResultContent(s)>>

\* The reply of the current iteration was classified as a terminal variant and
\* its activity has been written.
TerminalAcknowledged(s) ==
    /\ content[s].type \in TerminalTypes
    /\ pc[s] \notin {"terminal", "catch"}
    /\ error[s] = None

\* C4: once the activity of a reply classified as Response, Elicitation or
\* Error is written, it is the one activity of its iteration and the loop is
\* over: no further model call, no tool call and no further activity.
C4_TerminalEndsLoop ==
    /\ [](\A s \in Sessions :
            TerminalAcknowledged(s) =>
                /\ IterationWrites(s) = <<content[s]>>
                /\ pc[s] \in {"loop", "done"})
    /\ [][\A s \in Sessions :
            TerminalAcknowledged(s) =>
                /\ modelCalls'[s] = modelCalls[s]
                /\ toolCalls'[s] = toolCalls[s]
                /\ activities'[s] = activities[s]
                /\ pc'[s] \in {"loop", "done"}]_vars

C4_Witness ==
    \E s \in Sessions :
        /\ pc[s] = "done"
        /\ TerminalAcknowledged(s)
        /\ activities[s][Len(activities[s])] = content[s]
        /\ content[s].type = "elicitation"
        /\ modelCalls[s] < MAX_ITERATIONS

BudgetErrorContent == BodyContent("error", maxIterationsMessage)

IsBudgetError(a) == a = BudgetErrorContent

\* The loop ran MAX_ITERATIONS iterations, none of which reached a terminal
\* variant or a caught failure.
BudgetWasExhausted(s) ==
    /\ iterations[s] = MAX_ITERATIONS
    /\ error[s] = None
    /\ \A i \in 1..Len(activities[s]) :
          activities[s][i].type \in TerminalTypes => IsBudgetError(activities[s][i])

\* C5: the Error activity of the iteration limit is written exactly once when
\* the loop ran MAX_ITERATIONS iterations without a terminal variant or a caught
\* failure, and is not written in any other case.
C5_BudgetErrorIffExhausted ==
    \A s \in Sessions :
        /\ pc[s] # "done" => Count(activities[s], IsBudgetError) = 0
        /\ pc[s] = "done" =>
              Count(activities[s], IsBudgetError)
                 = (IF BudgetWasExhausted(s) THEN 1 ELSE 0)

C5_Witness ==
    \E s \in Sessions :
        /\ pc[s] = "done"
        /\ modelCalls[s] = MAX_ITERATIONS
        /\ activities[s][Len(activities[s])] = BudgetErrorContent

IsAgentError(a) ==
    a.type = "error" /\ a.body # <<>> /\ a.body[1] = "Agent error: "

\* C6: a failure raised inside an iteration is caught at the iteration boundary;
\* once its Error activity is written it is the only one, the task is complete,
\* and from the catch on there is no further model call and no tool call.
C6_FailureEndsLoop ==
    /\ [](\A s \in Sessions :
            /\ error[s] = None => Count(activities[s], IsAgentError) = 0
            /\ error[s] # None =>
                  /\ pc[s] \in {"catch", "loop", "done", "thrown"}
                  /\ modelCalls[s] = iterations[s]
                  /\ pc[s] \in {"loop", "done"} =>
                        /\ taskComplete[s]
                        /\ Count(activities[s], IsAgentError) = 1
                        /\ activities[s][Len(activities[s])]
                              = AgentErrorContent(error[s][1]))
    /\ [][\A s \in Sessions :
            error[s] # None =>
                /\ modelCalls'[s] = modelCalls[s]
                /\ toolCalls'[s] = toolCalls[s]
                /\ error'[s] = error[s]]_vars

C6_Witness ==
    \E s \in Sessions :
        /\ pc[s] = "done"
        /\ error[s] = Some(<<"Anthropic API error: ">> \o AnthropicErrorMessage)
        /\ modelCalls[s] < MAX_ITERATIONS
        /\ Count(activities[s], IsAgentError) = 1

\* An Action for getWeather or getTime one of whose two coordinates is missing
\* or is not a number.
UnparsableCoordinates(c) ==
    /\ c.type = "action"
    /\ c.action \in {"getWeather", "getTime"}
    /\ c.parameter # None
    /\ LET parts == Split(c.parameter[1], ",")
       IN  \/ Len(parts) < 2
           \/ ParseFloat(parts[1]) = NaN
           \/ ParseFloat(parts[2]) = NaN

\* C7: an Action for getWeather or getTime with unparsable coordinates raises the
\* parameter error without the tool being called, and the iteration ends with
\* the announcement followed by exactly one Error activity, no result activity.
C7_ParameterErrorEndsLoop ==
    \A s \in Sessions :
        UnparsableCoordinates(content[s]) =>
            /\ pc[s] \notin {"tool", "result"}
            /\ call[s] = NoCall
            /\ lookup[s] = ""
            /\ toolResult[s] = None
            /\ (pc[s] \in {"catch", "loop", "done", "thrown"} /\ ~WriteWasRejected(s)) =>
                  error[s] = Some(<<"Invalid parameter for ", content[s].action,
                                    " action">>)
            /\ (pc[s] \in {"loop", "done"} /\ ~WriteWasRejected(s)) =>
                  /\ IterationWrites(s)
                        = <<content[s], AgentErrorContent(error[s][1])>>
                  /\ taskComplete[s]

C7_Witness ==
    \E s \in Sessions :
        /\ pc[s] = "done"
        /\ content[s].action = "getWeather"
        /\ content[s].parameter = Some(<<"abc", ",", "def">>)
        /\ Len(IterationWrites(s)) = 2
        /\ IsAgentError(IterationWrites(s)[2])

\* The listing of the session's earlier activities was rejected.
ListingFailed(s) == pc[s] = "thrown" /\ messages[s] = <<>>

\* C8: when an invocation has ended because the listing of the earlier
\* activities, the model call, the classification, the parameter parsing or the
\* tool execution failed, the session holds an Error activity.
C8_NothingFailsSilently ==
    \A s \in Sessions :
        (\/ ListingFailed(s)
         \/ pc[s] = "done" /\ error[s] # None /\ ~WriteWasRejected(s)) =>
            \E i \in 1..Len(activities[s]) : activities[s][i].type = "error"

\* Lookup outcomes that are a failure inside the tool.
ToolFailureLookups ==
    {"fetch_rejects", "timeout_abort", "status_not_ok", "json_rejects",
     "no_results", "no_current", "no_data"}

\* The text by which each tool reports each failure.
ToolErrorText(toolName, l) ==
    CASE toolName = "getCoordinates" ->
            (CASE l \in {"fetch_rejects", "json_rejects"} -> "Failed to get coordinates: "
               [] l = "status_not_ok" -> "OpenStreetMap API error: "
               [] OTHER -> "Location not found")
      [] toolName = "getWeather" ->
            (CASE l \in {"fetch_rejects", "json_rejects"} -> "Failed to get weather: "
               [] OTHER -> "Weather data not available")
      [] toolName = "getTime" ->
            (CASE l \in {"fetch_rejects", "timeout_abort", "json_rejects"} ->
                    "Failed to get time: "
               [] l = "status_not_ok" -> "Time API error: "
               [] OTHER -> "Time data not available")

Contains(text, tok) == \E i \in 1..Len(text) : text[i] = tok

\* C9: a failure inside a tool does not end the loop: the tool's error text is
\* the result of the action, the conversation gets it as a human message, the
\* result activity carries it, no Error activity is written for it and the task
\* is not complete.
C9_ToolFailureIsNotTerminal ==
    \A s \in Sessions :
        lookup[s] \in ToolFailureLookups =>
            /\ toolResult[s] # None
            /\ Contains(toolResult[s][1], ToolErrorText(call[s].tool, lookup[s]))
            /\ Len(messages[s]) >= 2
            /\ messages[s][Len(messages[s]) - 1] = AIMessage(response[s])
            /\ messages[s][Len(messages[s])]
                  = HumanMessage(<<"Tool result: ">> \o toolResult[s][1])
            /\ ~WriteWasRejected(s) =>
                  /\ error[s] = None
                  /\ ~taskComplete[s]
                  /\ pc[s] \in {"result", "loop", "budget", "done", "thrown"}
                  /\ pc[s] = "loop" =>
                        /\ IterationWrites(s)
                              = <<content[s],
                                  ActionContent(content[s].action,
                                                content[s].parameter, toolResult[s])>>
                        /\ iterations[s] < MAX_ITERATIONS => LoopCondition(s)

C9_Witness ==
    \E s \in Sessions :
        /\ pc[s] = "loop"
        /\ call[s].tool = "getWeather"
        /\ lookup[s] = "fetch_rejects"
        /\ Len(IterationWrites(s)) = 2
        /\ IterationWrites(s)[2].result
              = Some(JsonStringifyString(<<"Failed to get weather: ", "fetch failed">>))
        /\ LoopCondition(s)

\* C10: whatever the outcome of its lookup (network error, status not ok,
\* unparsable or missing payload, nothing found, the abort of getTime's timer),
\* a tool returns a value and does not throw, so executeAction returns too.
C10_ToolsNeverRaise ==
    \A s \in Sessions :
        lookup[s] # "" =>
            LET r == InvokeTool(call[s], lookup[s])
            IN  /\ ~r.thrown
                /\ r.value # <<>>
                /\ toolResult[s] = Some(FinishAction(call[s], r).value)
                /\ error[s] = None \/ WriteWasRejected(s)

C10_Witness ==
    \E s \in Sessions :
        /\ pc[s] = "result"
        /\ call[s].tool = "getTime"
        /\ lookup[s] = "timeout_abort"
        /\ toolResult[s]
              = Some(<<"Failed to get time: ", "This operation was aborted">>)

\* ------------------------------------------------ one iteration, every reply

\* Longest reply of the model, in tokens.
MaxReplyLen == 4

\* Longest parameter list of a tool call, in tokens.
MaxParamLen == 5

\* The texts of at most n tokens over an alphabet.
Texts(alphabet, n) == UNION {[1..k -> alphabet] : k \in 0..n}

TextAlphabet ==
    {"THINKING:", "ACTION:", "RESPONSE:", "ELICITATION:", "ERROR:", " ", "abc",
     "getTime", "(", ")", "1"}

CallAlphabet == {" ", "getTime", "bogusTool", "(", ")", "1", ","}

ParameterAlphabet == {"1", "2", ",", " ", "abc"}

\* What model.invoke may resolve to: any text; texts tagged ACTION:; and calls
\* of the two tools that take a latitude and a longitude, with any parameter.
AnyReplies ==
    Texts(TextAlphabet, MaxReplyLen)
    \cup {<<"ACTION:">> \o t : t \in Texts(CallAlphabet, MaxReplyLen)}
    \cup {<<"ACTION:", " ", n, "(">> \o p \o <<")">> :
             n \in {"getWeather", "getTime"},
             p \in Texts(ParameterAlphabet, MaxParamLen)}

\* The first iteration of a session without history has called the model.
InitReply ==
    /\ pageSize = PageSize
    /\ pc = [s \in Sessions |-> IF s = "s1" THEN "call" ELSE "idle"]
    /\ history = [s \in Sessions |-> <<>>]
    /\ activities = [s \in Sessions |-> <<>>]
    /\ connection = [s \in Sessions |-> NoConnection]
    /\ allActivities = [s \in Sessions |-> <<>>]
    /\ hasNextPage = [s \in Sessions |-> FALSE]
    /\ messages = [s \in Sessions |->
                      IF s = "s1" THEN <<HumanMessage(UserPrompt)>> ELSE <<>>]
    /\ taskComplete = [s \in Sessions |-> FALSE]
    /\ iterations = [s \in Sessions |-> IF s = "s1" THEN 1 ELSE 0]
    /\ response = [s \in Sessions |-> <<>>]
    /\ content = [s \in Sessions |-> NoContent]
    /\ call = [s \in Sessions |-> NoCall]
    /\ lookup = [s \in Sessions |-> ""]
    /\ toolResult = [s \in Sessions |-> None]
    /\ error = [s \in Sessions |-> None]
    /\ rejection = [s \in Sessions |-> None]
    /\ modelCalls = [s \in Sessions |-> IF s = "s1" THEN 1 ELSE 0]
    /\ toolCalls = [s \in Sessions |-> 0]
    /\ actionReplies = [s \in Sessions |-> 0]
    /\ written = [s \in Sessions |-> 0]

AnyReply(s) == ModelRepliesFrom(s, AnyReplies)

\* The iteration runs to its end, the store acknowledging every write.
NextReply ==
    \E s \in Sessions :
        \/ AnyReply(s)
        \/ ThoughtWritten(s)
        \/ ActionAnnounced(s)
        \/ ToolResolves(s)
        \/ ResultWritten(s)
        \/ TerminalWritten(s)
        \/ ErrorWritten(s)

SpecReply == InitReply /\ [][NextReply]_vars

\* mapResponseToLinearActivityContent has thrown for the reply of the iteration.
ClassificationFailed(s) ==
    pc[s] \notin {"idle", "call"} /\ content[s] = NoContent /\ error[s] # None

\* The markers of the variants that carry a body.
BodyMarkers ==
    {[keyword |-> "THINKING:", type |-> "thought"],
     [keyword |-> "RESPONSE:", type |-> "response"],
     [keyword |-> "ELICITATION:", type |-> "elicitation"],
     [keyword |-> "ERROR:", type |-> "error"]}

\* C11: a reply that begins with THINKING:, RESPONSE:, ELICITATION: or ERROR:
\* is classified as the matching variant, its body the reply without the
\* leading marker (and surrounding white space); a reply that begins with no
\* marker is classified, without failure, as Thought with the whole text
\* (trimmed) as its body.
C11_MarkersClassified ==
    \A s \in Sessions :
        pc[s] \notin {"idle", "call"} /\ ~StartsWith(response[s], "ACTION:") =>
            LET r == response[s]
                marked == {m \in BodyMarkers : StartsWith(r, m.keyword)}
            IN  /\ ~ClassificationFailed(s)
                /\ \A m \in marked :
                       content[s] = BodyContent(m.type, Trim(Tail(r)))
                /\ marked = {} => content[s] = BodyContent("thought", Trim(r))

\* The calls NAME(params) a reply holds after an ACTION: marker: white space may
\* follow the marker, params is not empty and ends at the first ")".
Calls(r) ==
    LET markers == {i \in 1..Len(r) : r[i] = "ACTION:"}
        names == {j \in 1..(Len(r) - 1) : IsWord(r[j]) /\ r[j + 1] = "("}
        closes == {k \in 1..Len(r) : r[k] = ")"}
    IN  {[at |-> x[1], name |-> r[x[2]], params |-> SubSeq(r, x[2] + 2, x[3] - 1)] :
            x \in {y \in markers \X names \X closes :
                    /\ y[1] < y[2] /\ y[2] + 2 < y[3]
                    /\ \A h \in (y[1] + 1)..(y[2] - 1) : IsSpace(r[h])
                    /\ \A h \in (y[2] + 2)..(y[3] - 1) : r[h] # ")"}}

FirstCall(r) == CHOOSE c \in Calls(r) : \A d \in Calls(r) : c.at <= d.at

\* C12: a reply tagged ACTION: is classified as Action with the tool name and
\* the parameter text of its call, unchanged, when it holds a call NAME(params)
\* and NAME is a registered tool; classification fails when it holds no such
\* call or NAME is not registered. No Action content and no Action activity
\* carries a tool name that is not registered.
C12_ActionClassified ==
    \A s \in Sessions :
        /\ pc[s] \notin {"idle", "call"} /\ StartsWith(response[s], "ACTION:") =>
              LET r == response[s]
                  parsed == Calls(r) # {}
                  first == FirstCall(r)
              IN  IF parsed /\ first.name \in ToolNames
                  THEN /\ ~ClassificationFailed(s)
                       /\ content[s] = ActionContent(first.name,
                                                     Some(first.params), None)
                  ELSE ClassificationFailed(s)
        /\ content[s].type = "action" => content[s].action \in ToolNames
        /\ \A i \in 1..Len(activities[s]) :
               activities[s][i].type = "action" =>
                   activities[s][i].action \in ToolNames

C12_Witness ==
    \E s \in Sessions :
        /\ response[s] = <<"ACTION:", " ", "getWeather", "(", "1", ",", "2", ")">>
        /\ content[s] = ActionContent("getWeather", Some(<<"1", ",", "2">>), None)
        /\ Len(activities[s]) = 2
        /\ activities[s][1] = content[s]

\* ------------------------------------------- the history of every session

\* Most activities a session holds when the prompt arrives.
MaxHistory == 4

\* What a session may hold: prompts of the user, responses, and activities of
\* the types the reconstruction drops.
HistoryContents ==
    {BodyContent("prompt", <<"Paris">>), BodyContent("prompt", <<"abc">>),
     BodyContent("response", <<"1">>), BodyContent("response", <<"2">>),
     BodyContent("thought", <<"def">>),
     ActionContent("getTime", Some(<<"1", ",", "2">>), None)}

\* A session with any history, paged by the store in pages of any size.
InitHistory ==
    /\ pageSize \in 1..PageSize
    /\ pc = [s \in Sessions |-> IF s = "s1" THEN "start" ELSE "idle"]
    /\ \E h \in Texts(HistoryContents, MaxHistory) :
          history = [s \in Sessions |-> IF s = "s1" THEN h ELSE <<>>]
    /\ Fresh

\* generateMessagesFromPreviousActivities runs, the store answering every call.
NextHistory ==
    \E s \in Sessions :
        \/ FetchFirstPage(s)
        \/ FetchNextPage(s)
        \/ SeedMessages(s)

SpecHistory == InitHistory /\ [][NextHistory]_vars

IsPromptOrResponse(a) == a.type \in {"prompt", "response"}

\* What generateMessagesFromPreviousActivities returned: the messages after the
\* new human message, once the loop is set up.
Reconstructed(s) == Tail(messages[s])

\* C13: the reconstruction reads every page of the session, whatever the page
\* size and the number of pages, and returns as many messages as the session
\* holds Prompt and Response activities; an empty session gives none.
C13_EveryPageRead ==
    \A s \in Sessions :
        pc[s] = "loop" /\ iterations[s] = 0 =>
            /\ allActivities[s] = history[s]
            /\ Len(Reconstructed(s)) = Count(history[s], IsPromptOrResponse)
            /\ history[s] = <<>> => Reconstructed(s) = <<>>

C13_Witness ==
    \E s \in Sessions :
        /\ pc[s] = "loop" /\ iterations[s] = 0
        /\ Len(history[s]) > 2 * pageSize
        /\ Count(history[s], IsPromptOrResponse) \in 2..(Len(history[s]) - 1)
        /\ Len(Reconstructed(s)) >= 2

\* C17: the reconstruction returns the Prompt and Response activities in the
\* reverse of the order of delivery, each Prompt as a human message and each
\* Response as an assistant message with the body of the activity.
C17_ReverseOfDelivery ==
    \A s \in Sessions :
        pc[s] = "loop" /\ iterations[s] = 0 =>
            LET kept == SelectSeq(history[s], IsPromptOrResponse)
                n == Len(kept)
            IN  /\ Len(Reconstructed(s)) = n
                /\ \A i \in 1..n :
                       Reconstructed(s)[i] =
                           [role |-> IF kept[n + 1 - i].type = "prompt"
                                     THEN "human" ELSE "assistant",
                            text |-> kept[n + 1 - i].body]

C17_Witness ==
    \E s \in Sessions :
        /\ pc[s] = "loop" /\ iterations[s] = 0
        /\ Len(history[s]) > pageSize
        /\ history[s][1].type = "prompt"
        /\ history[s][Len(history[s])].type = "response"
        /\ Reconstructed(s)[1].role = "assistant"
        /\ Reconstructed(s)[Len(Reconstructed(s))].role = "human"

\* ------------------------------------------------------------ whole runs

\* The messages the loop has added to the seed: the replies that were not
\* terminal, each Action reply followed by the result of its tool.
Appended(s) ==
    SubSeq(messages[s], 2 + Count(history[s], IsPromptOrResponse),
           Len(messages[s]))

IsToolResult(m) == m.role = "human"

\* The activities a sequence of replies and tool results stands for, in order:
\* the Thought of a Thought reply; the announcement of an Action reply and then
\* the same Action with the result.
RECURSIVE TrailOf(_)
TrailOf(msgs) ==
    IF msgs = <<>> THEN <<>>
    ELSE LET c == MapResponseToLinearActivityContent(msgs[1].text).value
         IN  IF Len(msgs) >= 2 /\ IsToolResult(msgs[2])
             THEN <<c, [c EXCEPT !.result = Some(Tail(msgs[2].text))]>>
                  \o TrailOf(Tail(Tail(msgs)))
             ELSE <<c>> \o TrailOf(Tail(msgs))

\* The invocation has returned after a terminal reply, nothing having failed.
EndedByTerminalReply(s) ==
    /\ pc[s] = "done"
    /\ error[s] = None
    /\ content[s].type \in TerminalTypes

\* C14: a run of t Thought replies and a Action replies followed by a terminal
\* reply, nothing failing, makes t + a + 1 model calls and writes t + 2a + 1
\* activities in the order of the replies: a Thought per Thought reply, an
\* announcement and a result per Action reply, then the terminal activity.
C14_RunOfReplies ==
    \A s \in Sessions :
        EndedByTerminalReply(s) =>
            LET a == Count(Appended(s), IsToolResult)
                t == Len(Appended(s)) - 2 * a
            IN  /\ t >= 0
                /\ t + a < MAX_ITERATIONS
                /\ modelCalls[s] = t + a + 1
                /\ Len(activities[s]) = t + 2 * a + 1
                /\ activities[s] = TrailOf(Appended(s)) \o <<content[s]>>

\* THINKING, ACTION getCoordinates("Paris"), RESPONSE
C14_Witness ==
    \E s \in Sessions :
        /\ EndedByTerminalReply(s)
        /\ iterations[s] = 3
        /\ modelCalls[s] = 3
        /\ Len(activities[s]) = 4
        /\ activities[s][1].type = "thought"
        /\ activities[s][2] = ActionContent("getCoordinates",
                                            Some(<<DQ, "Paris", DQ>>), None)
        /\ activities[s][3].type = "action" /\ activities[s][3].result # None
        /\ activities[s][4].type = "response"

\* The loop of the invocation is set up: its message list exists.
Seeded(s) == pc[s] \notin {"idle", "start", "paging", "thrown"}

\* What one step does to the message list of a set-up invocation.
MessagesStep(s) ==
    IF pc[s] = "thought" /\ pc'[s] = "loop"
    THEN messages'[s] = Append(messages[s], AIMessage(response[s]))
    ELSE IF pc[s] = "tool" /\ pc'[s] = "result"
    THEN messages'[s] =
             messages[s] \o <<AIMessage(response[s]),
                              HumanMessage(<<"Tool result: ">> \o toolResult'[s][1])>>
    ELSE messages'[s] = messages[s]

\* C16: the first model call is given the new human message followed by the
\* reconstructed history in the order it was returned; from then on the list
\* only grows at its end: by the reply when a Thought has been written, by the
\* reply and the tool result when the tool of an Action has resolved, and by
\* nothing in every other step (terminal reply, caught failure).
C16_MessagesAppendOnly ==
    /\ [](\A s \in Sessions :
             pc[s] = "call" /\ iterations[s] = 1 =>
                 messages[s] = <<HumanMessage(UserPrompt)>>
                               \o MessagesFromActivities(history[s]))
    /\ [][\A s \in Sessions : Seeded(s) => MessagesStep(s)]_vars

C16_Witness ==
    \E s \in Sessions :
        /\ history[s] # <<>>
        /\ Len(messages[s]) = 1 + Count(history[s], IsPromptOrResponse) + 3
        /\ messages[s][1] = HumanMessage(UserPrompt)
        /\ Count(Appended(s), IsToolResult) = 1
        /\ pc[s] = "done"

\* -------------------------------------------------------- terminal activities

IsTerminalActivity(a) == a.type \in TerminalTypes

\* C20: an invocation that returns has written exactly one terminal activity
\* (Response, Elicitation or Error), and wrote it last; the Error of the catch
\* block and the Error of the exhausted budget are never both written.
C20_OneTerminalActivityLast ==
    \A s \in Sessions :
        pc[s] = "done" =>
            /\ Count(activities[s], IsTerminalActivity) = 1
            /\ IsTerminalActivity(activities[s][Len(activities[s])])
            /\ ~(/\ \E i \in 1..Len(activities[s]) : IsAgentError(activities[s][i])
                 /\ \E i \in 1..Len(activities[s]) : IsBudgetError(activities[s][i]))

C20_Witness ==
    \E s \in Sessions :
        /\ pc[s] = "done"
        /\ Len(activities[s]) >= 3
        /\ IsAgentError(activities[s][Len(activities[s])])

\* ------------------------------------------------------ parameters of a call

\* The reply is ACTION:, optional white space, and the call NAME() of a
\* registered tool with nothing between the parentheses.
IsEmptyCall(r, name) ==
    /\ Len(r) >= 4
    /\ r[1] = "ACTION:"
    /\ \A h \in 2..(Len(r) - 3) : IsSpace(r[h])
    /\ r[Len(r) - 2] = name
    /\ r[Len(r) - 1] = "("
    /\ r[Len(r)] = ")"

\* C18: a reply tagged ACTION: that calls a registered tool with an empty
\* parameter list, NAME(), is classified as Action with that tool and an absent
\* parameter; classification does not fail on it.
C18_EmptyParameterList ==
    \A s \in Sessions : \A name \in ToolNames :
        pc[s] \notin {"idle", "call"} /\ IsEmptyCall(response[s], name) =>
            /\ ~ClassificationFailed(s)
            /\ content[s] = ActionContent(name, None, None)

\* executeAction has run for an Action of a tool that takes a latitude and a
\* longitude: the announcement is written and the call made or refused.
LatLongActionTried(s) ==
    /\ content[s].type = "action"
    /\ content[s].action \in {"getWeather", "getTime"}
    /\ content[s].parameter # None
    /\ pc[s] \notin {"idle", "call", "announce"}

ToolExecuted(s) == toolCalls[s] = 1 /\ call[s].tool = content[s].action

ParameterErrorSignalled(s) ==
    /\ toolCalls[s] = 0
    /\ call[s] = NoCall
    /\ error[s] = Some(<<"Invalid parameter for ", content[s].action, " action">>)

\* The part is a number and nothing else, white space around it aside.
IsNumberText(part) == Len(Trim(part)) = 1 /\ Trim(part)[1] \in NumberTokens

\* The part begins, after white space, with a number.
HasLeadingNumber(part) ==
    TrimStart(part) # <<>> /\ TrimStart(part)[1] \in NumberTokens

LeadingNumber(part) == TrimStart(part)[1]

\* C19 as stated: the tool is executed iff the parameter splits on commas into
\* two parts that are both numbers, the first passed as latitude and the second
\* as longitude; every other parameter is a parameter error and no tool runs.
C19_Original ==
    \A s \in Sessions :
        LatLongActionTried(s) =>
            LET parts == Split(content[s].parameter[1], ",")
            IN  IF Len(parts) = 2 /\ IsNumberText(parts[1]) /\ IsNumberText(parts[2])
                THEN /\ ToolExecuted(s)
                     /\ call[s].args = <<Trim(parts[1])[1], Trim(parts[2])[1]>>
                ELSE ParameterErrorSignalled(s)

\* C19: the tool is executed iff the parameter splits on commas into at least
\* two parts of which the first two each begin, after white space, with a
\* number; the first number is passed as latitude and the second as longitude,
\* whatever follows them. Every other parameter is a parameter error and no
\* tool runs.
C19_FirstTwoLeadingNumbers ==
    \A s \in Sessions :
        LatLongActionTried(s) =>
            LET parts == Split(content[s].parameter[1], ",")
            IN  IF /\ Len(parts) >= 2
                   /\ HasLeadingNumber(parts[1])
                   /\ HasLeadingNumber(parts[2])
                THEN /\ ToolExecuted(s)
                     /\ call[s].args =
                            <<LeadingNumber(parts[1]), LeadingNumber(parts[2])>>
                ELSE ParameterErrorSignalled(s)

C19_Witness ==
    \E s \in Sessions :
        /\ LatLongActionTried(s)
        /\ content[s].parameter = Some(<<"1", ",", "2", ",", "1">>)
        /\ ToolExecuted(s)
        /\ call[s].args = <<"1", "2">>

\* ------------------------------------------------------- concurrent sessions

\* What the model answers in each of two sessions served at the same time.
ConcurrentReplies(s) ==
    IF s = "s1"
    THEN { <<"THINKING:", " ", "I should find coordinates first">>,
           <<"ACTION:", " ", "getWeather", "(", "40.7", ",", "-74.0", ")">>,
           <<"ACTION:", " ", "getWeather", "(", "abc", ",", "def", ")">>,
           <<"RESPONSE:", " ", "It's 18 C and partly cloudy in Paris.">> }
    ELSE { <<"THINKING:", " ", "I should find coordinates first">>,
           <<"ELICITATION:", " ", "Which Paris do you mean?">> }

\* handleUserPrompt has been called for both sessions, one of them with
\* earlier activities.
InitConcurrent ==
    /\ pageSize = PageSize
    /\ pc = [s \in Sessions |-> "start"]
    /\ history = [s \in Sessions |-> IF s = "s1" THEN <<>> ELSE EarlierActivities]
    /\ Fresh

ConcurrentReply(s) == ModelRepliesFrom(s, ConcurrentReplies(s))

\* The two invocations interleave at every await; the store and the model
\* answer every call.
NextConcurrent ==
    \E s \in Sessions :
        \/ FetchFirstPage(s)
        \/ FetchNextPage(s)
        \/ SeedMessages(s)
        \/ NextIteration(s)
        \/ ConcurrentReply(s)
        \/ ThoughtWritten(s)
        \/ ActionAnnounced(s)
        \/ ToolResolves(s)
        \/ ResultWritten(s)
        \/ TerminalWritten(s)
        \/ ErrorWritten(s)
        \/ BudgetExhausted(s)
        \/ BudgetWritten(s)
        \/ Finish(s)

SpecConcurrent == InitConcurrent /\ [][NextConcurrent]_vars

IsReply(m) == m.role = "assistant"

\* What ends the trail of an invocation that has returned: the terminal reply;
\* or the Error of the catch block, after the announcement when the failure
\* came from executeAction; or the Error of the exhausted budget.
FinalActivities(s) ==
    IF error[s] # None
    THEN (IF content[s].type = "action" THEN <<content[s]>> ELSE <<>>)
         \o <<AgentErrorContent(error[s][1])>>
    ELSE IF content[s].type \in TerminalTypes THEN <<content[s]>>
    ELSE <<BudgetErrorContent>>

\* The activities and the model calls of an invocation, as its own replies and
\* tool results determine them.
OwnTrail(s) == TrailOf(Appended(s)) \o FinalActivities(s)

OwnModelCalls(s) ==
    Count(Appended(s), IsReply)
    + (IF error[s] # None \/ content[s].type \in TerminalTypes THEN 1 ELSE 0)

\* The step is a step of the invocation for session s and of no other.
StepOf(s) ==
    /\ pc'[s] # pc[s]
    /\ \A o \in Sessions \ {s} : pc'[o] = pc[o]

\* C15: invocations for different sessions that run at the same time do not
\* interfere: whatever the interleaving, the activities of a session change
\* only in a step of its own invocation, and an invocation that has returned
\* has written to its session, and called the model, exactly as its own
\* replies and tool results determine.
C15_SessionsDoNotInterfere ==
    /\ [][\A s \in Sessions :
             activities'[s] # activities[s] \/ messages'[s] # messages[s]
                 => StepOf(s)]_vars
    /\ [](\A s \in Sessions :
             pc[s] = "done" =>
                 /\ activities[s] = OwnTrail(s)
                 /\ modelCalls[s] = OwnModelCalls(s))

C15_Witness ==
    /\ pc["s1"] = "result"
    /\ pc["s2"] = "terminal"
    /\ Len(activities["s1"]) >= 2
    /\ Len(activities["s2"]) >= 1

\* --------------------------------------------- audit trail and model context

\* The post-execution activities of a session, in the order written.
ResultActivities(s) == SelectSeq(activities[s], IsResult)

\* The tool-result messages the loop has added to the conversation, in order.
ResultMessages(s) == SelectSeq(Appended(s), IsToolResult)

\* C22: for every Action iteration whose tool resolves, the result recorded in
\* the post-execution activity is the text embedded in the human message added
\* to the conversation in that iteration, and the tool and the parameter of the
\* post-execution activity are those of the pre-execution activity written just
\* before it; once an iteration has written its result, the trail and the
\* conversation hold the same results.
C22_TrailAgreesWithContext ==
    \A s \in Sessions :
        /\ Len(ResultActivities(s)) <= Len(ResultMessages(s))
        /\ \A k \in 1..Len(ResultActivities(s)) :
               ResultMessages(s)[k] =
                   HumanMessage(<<"Tool result: ">> \o ResultActivities(s)[k].result[1])
        /\ \A i \in 1..Len(activities[s]) :
               IsResult(activities[s][i]) =>
                   /\ i > 1
                   /\ activities[s][i - 1] = AnnouncementOf(activities[s][i])
        /\ pc[s] \in {"loop", "done"} /\ ~WriteWasRejected(s) =>
               Len(ResultActivities(s)) = Len(ResultMessages(s))

C22_Witness ==
    \E s \in Sessions :
        /\ pc[s] = "loop"
        /\ Len(ResultActivities(s)) = 1
        /\ ResultActivities(s)[1].action = "getWeather"
        /\ ResultActivities(s)[1].parameter = Some(<<"40.7", ",", "-74.0">>)
        /\ lookup[s] = "current"
        /\ ResultMessages(s) =
               <<HumanMessage(<<"Tool result: ">> \o toolResult[s][1])>>

\* ---------------------------------------------------------------- termination

\* A page as a store delivers it that reports a next page but gives no cursor.
WithoutCursor(c) == [c EXCEPT !.pageInfo.endCursor = None]

\* The store answers the first listing with such a page.
FetchFirstPageNoCursor(s) ==
    /\ pc[s] = "start"
    /\ LET c == WithoutCursor(ListActivities(history[s], 0))
       IN  /\ c.pageInfo.hasNextPage
           /\ connection' = [connection EXCEPT ![s] = c]
           /\ hasNextPage' = [hasNextPage EXCEPT ![s] = c.pageInfo.hasNextPage]
           /\ allActivities' = [allActivities EXCEPT ![s] = c.nodes]
    /\ pc' = [pc EXCEPT ![s] = "paging"]
    /\ UNCHANGED <<pageSize, history, activities, messages, taskComplete, iterations,
                   response, content, call, lookup, toolResult, error, rejection,
                   modelCalls, toolCalls, actionReplies, written>>

\* A session whose earlier activities fill two pages, the second partly.
LiveHistory ==
    [i \in 1..(PageSize + 1) |->
        IF i % 2 = 1 THEN BodyContent("response", <<"1">>)
        ELSE BodyContent("prompt", <<"abc">>)]

\* What the model answers: a Thought, a tool call, a terminal reply.
LiveReplies ==
    { <<"THINKING:", " ", "I should find coordinates first">>,
      <<"ACTION:", " ", "getCoordinates", "(", DQ, "Paris", DQ, ")">>,
      <<"RESPONSE:", " ", "It's 18 C and partly cloudy in Paris.">> }

InitLive ==
    /\ pageSize = PageSize
    /\ pc = [s \in Sessions |-> IF s = "s1" THEN "start" ELSE "idle"]
    /\ history = [s \in Sessions |-> IF s = "s1" THEN LiveHistory ELSE <<>>]
    /\ Fresh

LiveReply(s) == ModelRepliesFrom(s, LiveReplies)

\* Every step of the invocation; the store, the model and the tools answer with
\* a value or a failure, and the store may withhold the cursor.
NextLive ==
    \E s \in Sessions :
        \/ FetchFirstPage(s)
        \/ FetchFirstPageNoCursor(s)
        \/ FetchNextPage(s)
        \/ ListRejects(s)
        \/ SeedMessages(s)
        \/ NextIteration(s)
        \/ LiveReply(s)
        \/ ModelRejects(s)
        \/ ThoughtWritten(s)
        \/ ActionAnnounced(s)
        \/ ToolResolves(s)
        \/ ResultWritten(s)
        \/ TerminalWritten(s)
        \/ WriteRejects(s)
        \/ ErrorWritten(s)
        \/ BudgetExhausted(s)
        \/ BudgetWritten(s)
        \/ WriteRejectsUncaught(s)
        \/ Finish(s)

\* Every awaited call settles, so the invocation always takes its next step.
SpecLive == InitLive /\ [][NextLive]_vars /\ WF_vars(NextLive)

\* handleUserPrompt has ended: it has returned, or it has rejected with the
\* failure of a call nothing catches.
Ended(s) == pc[s] \in {"done", "thrown"}

\* C21: provided every call to the store, the model and the tools settles and
\* the history has finitely many pages, an invocation of handleUserPrompt
\* eventually ends: the pagination loop ends when the store reports no next
\* page or gives no cursor, and the turn loop does not iterate forever.
C21_InvocationEnds ==
    <>(\A s \in Sessions : pc[s] = "idle" \/ Ended(s))

C21_Witness ==
    \E s \in Sessions :
        /\ pc[s] = "done"
        /\ hasNextPage[s] /\ connection[s].pageInfo.endCursor = None
        /\ Len(allActivities[s]) < Len(history[s])
        /\ iterations[s] = MAX_ITERATIONS
        /\ ~taskComplete[s]

====
